---- MODULE Spec2Model ----
(***************************************************************************)
(* The two-tier cache of src/src/services/weatherApi.js: MemoryCache,      *)
(* PersistentCache (over localStorage) and the CacheService facade.        *)
(*                                                                         *)
(* Time is the reading of Date.now(), a non-decreasing integer.  The       *)
(* configured ceilings and the default TTL are scaled down so that the     *)
(* ceilings are reached within the model's bounds.                         *)
(***************************************************************************)
EXTENDS Integers, Sequences, FiniteSets, TLC

\* CACHE_CONFIG (weatherApi.js 383-398), scaled: the source's defaults are
\* 100 entries, 10 MiB and 10 minutes.
MAX_ENTRIES == 2
MAX_MEMORY_SIZE == 3
WEATHER_DATA == 1
STORAGE_PREFIX == "weather_cache_"
METADATA_KEY == "weather_cache_metadata"

\* Bounds of the model: the last clock reading, and the number of calls made
\* of the memory tier on its own and of the service.
MaxTime == 1
MaxCalls == 4
MaxServiceCalls == 3

\* Cache keys are strings: "" is the one falsy string of JavaScript, and
\* STORAGE_PREFIX + "metadata" is METADATA_KEY.
Keys == {"", "a", "b", "metadata"}

\* The keys the memory tier's callers use, the service's, and those of the
\* persistent tier called on its own.
MemoryKeys == {"", "a", "b"}
ServiceKeys == {"", "a", "metadata"}
PersistentKeys == {"a", "b", "metadata"}

\* Payloads: two ordinary ones, one larger than the memory ceiling, and one
\* JSON.stringify throws on (an object that refers to itself).
Payloads == {"v1", "v2", "big", "circular"}

\* TTLs a caller passes: shorter than the default, and the default.
TTLs == {0, WEATHER_DATA}

\* What the service's callers write: a payload with its TTL.
Writes == {<<"v1", 0>>, <<"v2", WEATHER_DATA>>}

\* Which localStorage.setItem of a PersistentCache.set throws (quota): "none",
\* "entry" or "index".  The service's calls meet a storage with room; the
\* persistent tier called on its own meets each of the three.
Faults == {"none"}
StorageFaults == {"none", "entry", "index"}

\* No value: a key with no record in a history variable.
None == [none |-> TRUE]

\* JavaScript's null, as a get returns it, and its undefined.
Null == "null"
UndefinedValue == "undefined"

VARIABLES
  now,            \* the reading of Date.now()
  memoryCache,    \* CacheService.memoryCache: [cache, metadata]
  persistentCache,\* CacheService.persistentCache: [storageAvailable, metadata]
  localStorage,   \* the origin's localStorage: storage key -> item
  hung,           \* a call entered a loop it never leaves
  calls,          \* the number of calls made so far
  ret,            \* the last call: its name, its key, and its argument or result
  evicted,        \* the evictions of the last call, each with the Map it chose from
  written,        \* history: per key, the caller's set whose value the memory tier
                  \* was given and that no delete, clear or eviction has removed
  everWritten,    \* history: the keys some set was called with
  observed,       \* history: the memory tier's gets counted by what they returned
  removedBy,      \* history: per key, the CacheService call ("delete" or "clear")
                  \* that removed it with no set of the key since, "" for none
  keygen,         \* the key generators: the arguments of the calls to make and
                  \* the keys the calls made so far returned
  otherTab,       \* the PersistentCache of a second tab of the origin, over the
                  \* same localStorage
  weatherStore,   \* the state of the weather store
  inFlight        \* the fetchWeatherData calls that have not finished, each
                  \* with the await it is suspended at

vars == <<now, memoryCache, persistentCache, localStorage, hung, calls, ret,
          evicted, written, everWritten, observed, removedBy, keygen,
          otherTab, weatherStore, inFlight>>

----------------------------------------------------------------------------
(* MemoryCache *)

\* a payload that serializes whatever it is
StringifyThrows_Never(data) == FALSE

\* JSON.stringify(data) throws a TypeError: in estimateSize it throws in the try
\* block and again in the catch block's fallback, so estimateSize throws
StringifyThrows(data) == data = "circular"

\* new Blob([JSON.stringify(data)]).size, in the model's size unit
estimateSize(data) ==
  CASE data = "v1" -> 1
    [] data = "v2" -> 2
    [] data = UndefinedValue -> 1
    [] OTHER -> MAX_MEMORY_SIZE + 1

\* constructor: an empty Map and zeroed counters
NewMemoryCache ==
  [cache |-> <<>>,
   metadata |-> [totalSize |-> 0, totalEntries |-> 0,
                 hits |-> 0, misses |-> 0, evictions |-> 0]]

\* Map.get: the position of key in the Map's iteration order, 0 when absent
IndexOf(cache, key) ==
  IF \E i \in DOMAIN cache : cache[i].key = key
  THEN CHOOSE i \in DOMAIN cache : cache[i].key = key
  ELSE 0

\* Map.delete: the other entries keep their order
MapDelete(cache, key) == SelectSeq(cache, LAMBDA e : e.key # key)

\* Map.set: a present key keeps its position, a new key goes last
MapSet(cache, entry) ==
  IF IndexOf(cache, entry.key) # 0
  THEN [cache EXCEPT ![IndexOf(cache, entry.key)] = entry]
  ELSE Append(cache, entry)

\* an expiry test that already expires an entry on the last reading of its ttl
isExpired_AtTheTtl(entry, t) == t - entry.timestamp >= entry.ttl

\* an expiry test that lets an entry live one reading past its ttl
isExpired_OneLate(entry, t) == t - entry.timestamp > entry.ttl + 1

\* Date.now() - entry.timestamp > entry.ttl
isExpired(entry, t) == t - entry.timestamp > entry.ttl

\* a delete that removes the entry and leaves the totals as they were
MemoryCache_delete_Unaccounted(mc, key) ==
  [cache |-> MapDelete(mc.cache, key), metadata |-> mc.metadata]

\* MemoryCache.delete
MemoryCache_delete(mc, key) ==
  LET i == IndexOf(mc.cache, key) IN
  IF i # 0
  THEN [cache |-> MapDelete(mc.cache, key),
        metadata |-> [mc.metadata EXCEPT
                        !.totalSize = @ - mc.cache[i].size,
                        !.totalEntries = @ - 1]]
  ELSE mc

\* a get that removes an expired entry without counting the miss
MemoryCache_get_ExpiryUncounted(mc, key, t) ==
  LET i == IndexOf(mc.cache, key) IN
  IF i = 0
  THEN [mc |-> [mc EXCEPT !.metadata.misses = @ + 1], val |-> Null]
  ELSE IF isExpired(mc.cache[i], t)
  THEN [mc |-> MemoryCache_delete(mc, key), val |-> Null]
  ELSE [mc |-> [mc EXCEPT !.cache[i].hits = @ + 1, !.metadata.hits = @ + 1],
        val |-> mc.cache[i].data]

\* a get that refreshes the timestamp of the entry it returns
MemoryCache_get_Touch(mc, key, t) ==
  LET i == IndexOf(mc.cache, key) IN
  IF i = 0
  THEN [mc |-> [mc EXCEPT !.metadata.misses = @ + 1], val |-> Null]
  ELSE IF isExpired(mc.cache[i], t)
  THEN [mc |-> [MemoryCache_delete(mc, key) EXCEPT !.metadata.misses = @ + 1],
        val |-> Null]
  ELSE [mc |-> [mc EXCEPT !.cache[i].hits = @ + 1, !.cache[i].timestamp = t,
                          !.metadata.hits = @ + 1],
        val |-> mc.cache[i].data]

\* MemoryCache.get: the tier after the call and the value returned
MemoryCache_get(mc, key, t) ==
  LET i == IndexOf(mc.cache, key) IN
  IF i = 0
  THEN [mc |-> [mc EXCEPT !.metadata.misses = @ + 1], val |-> Null]
  ELSE IF isExpired(mc.cache[i], t)
  THEN [mc |-> [MemoryCache_delete(mc, key) EXCEPT !.metadata.misses = @ + 1],
        val |-> Null]
  ELSE [mc |-> [mc EXCEPT !.cache[i].hits = @ + 1, !.metadata.hits = @ + 1],
        val |-> mc.cache[i].data]

\* a has that counts the expired entry it deletes as a miss, as get does
MemoryCache_has_CountsMiss(mc, key, t) ==
  LET i == IndexOf(mc.cache, key) IN
  IF i = 0 THEN [mc |-> mc, val |-> FALSE]
  ELSE IF isExpired(mc.cache[i], t)
  THEN [mc |-> [MemoryCache_delete(mc, key) EXCEPT !.metadata.misses = @ + 1],
        val |-> FALSE]
  ELSE [mc |-> mc, val |-> TRUE]

\* MemoryCache.has
MemoryCache_has(mc, key, t) ==
  LET i == IndexOf(mc.cache, key) IN
  IF i = 0 THEN [mc |-> mc, val |-> FALSE]
  ELSE IF isExpired(mc.cache[i], t)
  THEN [mc |-> MemoryCache_delete(mc, key), val |-> FALSE]
  ELSE [mc |-> mc, val |-> TRUE]

\* a clear that empties the map and keeps the count of evictions
MemoryCache_clear_KeepsEvictions(mc) ==
  [NewMemoryCache EXCEPT !.metadata.evictions = mc.metadata.evictions]

\* MemoryCache.clear
MemoryCache_clear(mc) == NewMemoryCache

\* Math.round(n / d) for n >= 0, d > 0
RoundDiv(n, d) == (2 * n + d) \div (2 * d)

\* MemoryCache.getStats: the metadata, hitRate in hundredths of a percent and
\* averageEntrySize; memoryUsage is formatBytes(totalSize), a rendering of
\* totalSize, kept as the number rendered
MemoryCache_getStats(mc) ==
  [totalSize |-> mc.metadata.totalSize,
   totalEntries |-> mc.metadata.totalEntries,
   hits |-> mc.metadata.hits,
   misses |-> mc.metadata.misses,
   evictions |-> mc.metadata.evictions,
   hitRate |-> IF mc.metadata.hits + mc.metadata.misses > 0
               THEN RoundDiv(mc.metadata.hits * 10000,
                             mc.metadata.hits + mc.metadata.misses)
               ELSE 0,
   averageEntrySize |-> IF mc.metadata.totalEntries > 0
                        THEN RoundDiv(mc.metadata.totalSize, mc.metadata.totalEntries)
                        ELSE 0,
   memoryUsage |-> mc.metadata.totalSize]

\* a scan whose comparison lets a later entry of the same timestamp win
IsOlder_OrAsOld(entry, oldestTime) == entry.timestamp <= oldestTime

\* the comparison of evictLeastRecentlyUsed's scan
IsOlder(entry, oldestTime) == entry.timestamp < oldestTime

\* the for-of loop of evictLeastRecentlyUsed from position i on: the position
\* of oldestKey, 0 for null
RECURSIVE ScanOldest(_, _, _, _)
ScanOldest(cache, i, oldestIdx, oldestTime) ==
  IF i > Len(cache) THEN oldestIdx
  ELSE IF IsOlder(cache[i], oldestTime)
  THEN ScanOldest(cache, i + 1, i, cache[i].timestamp)
  ELSE ScanOldest(cache, i + 1, oldestIdx, oldestTime)

\* if (oldestKey): null and "" are falsy
Truthy(cache, i) == i # 0 /\ cache[i].key # ""

\* MemoryCache.evictLeastRecentlyUsed, with Date.now() reading t
evictLeastRecentlyUsed(mc, t) ==
  LET i == ScanOldest(mc.cache, 1, 0, t) IN
  IF Truthy(mc.cache, i)
  THEN [MemoryCache_delete(mc, mc.cache[i].key) EXCEPT !.metadata.evictions = @ + 1]
  ELSE mc

\* the condition of evictIfNeeded's memory-limit loop
OverMemory(mc, newEntrySize) ==
  mc.metadata.totalSize + newEntrySize > MAX_MEMORY_SIZE /\ Len(mc.cache) > 0

\* an entry-count loop that starts evicting one entry too late
OverEntries_Beyond(mc) ==
  mc.metadata.totalEntries > MAX_ENTRIES /\ Len(mc.cache) > 0

\* the condition of evictIfNeeded's entry-count loop
OverEntries(mc) ==
  mc.metadata.totalEntries >= MAX_ENTRIES /\ Len(mc.cache) > 0

\* One iteration of a while loop of evictIfNeeded.  st is the loop's state:
\* the tier, the clock, the evictions so far and whether the loop is endless.
\* An iteration that finds no entry older than the clock reading changes
\* nothing, and the loop repeats it until the clock has moved on; one that
\* finds a falsy oldestKey changes nothing on any later reading either.
EvictIteration(st) ==
  LET i == ScanOldest(st.mc.cache, 1, 0, st.t)
      mc2 == evictLeastRecentlyUsed(st.mc, st.t)
  IN IF mc2 # st.mc
     THEN [st EXCEPT !.mc = mc2,
                     !.log = Append(@, [key |-> st.mc.cache[i].key,
                                        from |-> st.mc.cache])]
     ELSE IF i # 0 THEN [st EXCEPT !.diverged = TRUE]
     ELSE [st EXCEPT !.t = @ + 1]

RECURSIVE MemoryLimitLoop(_, _)
MemoryLimitLoop(st, newEntrySize) ==
  IF st.diverged \/ st.t > MaxTime \/ ~OverMemory(st.mc, newEntrySize) THEN st
  ELSE MemoryLimitLoop(EvictIteration(st), newEntrySize)

RECURSIVE EntryLimitLoop(_)
EntryLimitLoop(st) ==
  IF st.diverged \/ st.t > MaxTime \/ ~OverEntries(st.mc) THEN st
  ELSE EntryLimitLoop(EvictIteration(st))

\* MemoryCache.evictIfNeeded
evictIfNeeded(mc, newEntrySize, t) ==
  EntryLimitLoop(MemoryLimitLoop(
    [mc |-> mc, t |-> t, log |-> <<>>, diverged |-> FALSE], newEntrySize))

\* the catch block of MemoryCache.set: the error is logged and the call
\* returns; nothing of the try block ran before this.estimateSize(data) threw
Caught(mc, t) == [mc |-> mc, t |-> t, log |-> <<>>, diverged |-> FALSE]

\* MemoryCache.set: the entry takes the clock reading at the call
MemoryCache_set(mc, key, data, ttl, t) ==
  LET size == estimateSize(data)
      entry == [key |-> key, data |-> data, timestamp |-> t, ttl |-> ttl,
                size |-> size, hits |-> 0]
      ev == evictIfNeeded(mc, size, t)
      i == IndexOf(ev.mc.cache, key)
      md == IF i # 0
            THEN [ev.mc.metadata EXCEPT
                    !.totalSize = @ - ev.mc.cache[i].size,
                    !.totalEntries = @ - 1]
            ELSE ev.mc.metadata
  IN IF StringifyThrows(data) THEN Caught(mc, t)
     ELSE IF ev.diverged \/ ev.t > MaxTime THEN ev
     ELSE [ev EXCEPT !.mc = [cache |-> MapSet(ev.mc.cache, entry),
                             metadata |-> [md EXCEPT
                                             !.totalSize = @ + size,
                                             !.totalEntries = @ + 1]]]

----------------------------------------------------------------------------
(* localStorage and PersistentCache *)

\* CACHE_CONFIG.STORAGE_PREFIX + key
storageKey(key) == STORAGE_PREFIX \o key

StorageKeys == {storageKey(k) : k \in Keys} \cup {METADATA_KEY}

\* localStorage.getItem's null
NoItem == [json |-> "none"]

\* a property never assigned
Undefined == [undefined |-> TRUE]

setItem(ls, k, item) == [ls EXCEPT ![k] = item]

removeItem(ls, k) == [ls EXCEPT ![k] = NoItem]

\* JSON.stringify of PersistentCache.set's entry {data, timestamp, ttl}
StringifyEntry(data, t, ttl) ==
  [json |-> "entry", data |-> data, timestamp |-> t, ttl |-> ttl]

\* JSON.stringify(this.metadata)
StringifyMetadata(md) ==
  [json |-> "metadata", keys |-> md.keys, totalSize |-> md.totalSize,
   lastCleanup |-> md.lastCleanup]

\* JSON.parse(serialized) read as an entry: the stored index has no data,
\* timestamp or ttl, and Date.now() - undefined is NaN
ParseEntry(item) ==
  IF item.json = "entry"
  THEN [data |-> item.data, timestamp |-> item.timestamp, ttl |-> item.ttl,
        nan |-> FALSE]
  ELSE [data |-> UndefinedValue, timestamp |-> 0, ttl |-> 0, nan |-> TRUE]

\* Date.now() - entry.timestamp > entry.ttl of a parsed unit: false on NaN
unitExpired(entry, t) == ~entry.nan /\ t - entry.timestamp > entry.ttl

\* JSON.parse of the item stored under METADATA_KEY: the index, or, when a
\* unit was left there, that unit's object, which has no keys
ParseMetadata(item) ==
  IF item.json = "metadata"
  THEN [keys |-> item.keys, totalSize |-> item.totalSize,
        lastCleanup |-> item.lastCleanup]
  ELSE [data |-> item.data, timestamp |-> item.timestamp, ttl |-> item.ttl]

\* this.metadata.keys is an array; otherwise a method called on it throws a
\* TypeError
HasKeys(pc) == "keys" \in DOMAIN pc.metadata

\* serialized.length, in the model's size unit: the payload and its envelope
SerializedLength(data) == estimateSize(data) + 1

\* the default metadata of loadMetadata and clear
NewMetadata(t) == [keys |-> <<>>, totalSize |-> 0, lastCleanup |-> t]

\* Array.includes / indexOf > -1
Includes(keys, key) == \E i \in DOMAIN keys : keys[i] = key

\* Array.splice(indexOf(key), 1)
Splice(keys, key) == SelectSeq(keys, LAMBDA k : k # key)

\* PersistentCache.saveMetadata; throws: localStorage.setItem throws, which
\* saveMetadata catches
saveMetadata(pc, ls, throws) ==
  IF ~pc.storageAvailable \/ throws THEN ls
  ELSE setItem(ls, METADATA_KEY, StringifyMetadata(pc.metadata))

\* PersistentCache.loadMetadata
loadMetadata(pc, ls, t) ==
  IF ~pc.storageAvailable THEN pc
  ELSE IF ls[METADATA_KEY] # NoItem
  THEN [pc EXCEPT !.metadata = ParseMetadata(ls[METADATA_KEY])]
  ELSE [pc EXCEPT !.metadata = NewMetadata(t)]

\* PersistentCache's constructor; available is checkStorageAvailability's
\* result, which leaves the storage as it found it
NewPersistentCache(ls, available, t) ==
  loadMetadata([storageAvailable |-> available, metadata |-> Undefined], ls, t)

\* PersistentCache.set
PersistentCache_set(pc, ls, key, data, ttl, t, fault) ==
  IF ~pc.storageAvailable \/ fault = "entry" THEN [pc |-> pc, ls |-> ls]
  ELSE IF ~HasKeys(pc)
  THEN [pc |-> pc, ls |-> setItem(ls, storageKey(key), StringifyEntry(data, t, ttl))]
  ELSE LET ls1 == setItem(ls, storageKey(key), StringifyEntry(data, t, ttl))
           pc1 == [pc EXCEPT
                     !.metadata.keys = IF Includes(@, key) THEN @ ELSE Append(@, key),
                     !.metadata.totalSize = @ + SerializedLength(data)]
       IN [pc |-> pc1, ls |-> saveMetadata(pc1, ls1, fault = "index")]

\* a delete that takes the length of the unit it removes out of totalSize
PersistentCache_delete_Decrements(pc, ls, key) ==
  IF ~pc.storageAvailable THEN [pc |-> pc, ls |-> ls]
  ELSE LET ls1 == removeItem(ls, storageKey(key)) IN
       IF ~HasKeys(pc) THEN [pc |-> pc, ls |-> ls1]
       ELSE IF Includes(pc.metadata.keys, key)
       THEN LET pc1 == [pc EXCEPT
                          !.metadata.keys = Splice(@, key),
                          !.metadata.totalSize =
                             IF ls[storageKey(key)].json = "entry"
                             THEN @ - SerializedLength(ls[storageKey(key)].data)
                             ELSE @]
            IN [pc |-> pc1, ls |-> saveMetadata(pc1, ls1, FALSE)]
       ELSE [pc |-> pc, ls |-> ls1]

\* PersistentCache.delete
PersistentCache_delete(pc, ls, key) ==
  IF ~pc.storageAvailable THEN [pc |-> pc, ls |-> ls]
  ELSE LET ls1 == removeItem(ls, storageKey(key)) IN
       IF ~HasKeys(pc) THEN [pc |-> pc, ls |-> ls1]
       ELSE IF Includes(pc.metadata.keys, key)
       THEN LET pc1 == [pc EXCEPT !.metadata.keys = Splice(@, key)]
            IN [pc |-> pc1, ls |-> saveMetadata(pc1, ls1, FALSE)]
       ELSE [pc |-> pc, ls |-> ls1]

\* a get that reads the storage without asking storageAvailable
PersistentCache_get_Unguarded(pc, ls, key, t) ==
  LET serialized == ls[storageKey(key)] IN
  IF serialized = NoItem THEN [pc |-> pc, ls |-> ls, val |-> Null, reads |-> 1]
  ELSE IF unitExpired(ParseEntry(serialized), t)
  THEN [pc |-> PersistentCache_delete(pc, ls, key).pc,
        ls |-> PersistentCache_delete(pc, ls, key).ls, val |-> Null, reads |-> 1]
  ELSE [pc |-> pc, ls |-> ls, val |-> ParseEntry(serialized).data, reads |-> 1]

\* PersistentCache.get: the tier and the storage after the call, the value
\* returned, and the number of localStorage.getItem calls it made
PersistentCache_get(pc, ls, key, t) ==
  IF ~pc.storageAvailable THEN [pc |-> pc, ls |-> ls, val |-> Null, reads |-> 0]
  ELSE LET serialized == ls[storageKey(key)] IN
       IF serialized = NoItem THEN [pc |-> pc, ls |-> ls, val |-> Null, reads |-> 1]
       ELSE IF unitExpired(ParseEntry(serialized), t)
       THEN [pc |-> PersistentCache_delete(pc, ls, key).pc,
             ls |-> PersistentCache_delete(pc, ls, key).ls, val |-> Null,
             reads |-> 1]
       ELSE [pc |-> pc, ls |-> ls, val |-> ParseEntry(serialized).data,
             reads |-> 1]

\* metadata.keys.forEach(key => localStorage.removeItem(prefix + key))
RemoveAll(ls, keys) ==
  [k \in DOMAIN ls |->
     IF \E i \in DOMAIN keys : storageKey(keys[i]) = k THEN NoItem ELSE ls[k]]

\* PersistentCache.clear
PersistentCache_clear(pc, ls, t) ==
  IF ~pc.storageAvailable \/ ~HasKeys(pc) THEN [pc |-> pc, ls |-> ls]
  ELSE [pc |-> [pc EXCEPT !.metadata = NewMetadata(t)],
        ls |-> removeItem(RemoveAll(ls, pc.metadata.keys), METADATA_KEY)]

\* the test of cleanup's scan: the unit is missing or expired at now
ToDelete(ls, key, t) ==
  \/ ls[storageKey(key)] = NoItem
  \/ unitExpired(ParseEntry(ls[storageKey(key)]), t)

\* keysToDelete.forEach(key => this.delete(key))
RECURSIVE DeleteEach(_, _, _)
DeleteEach(pc, ls, keys) ==
  IF keys = <<>> THEN [pc |-> pc, ls |-> ls]
  ELSE LET d == PersistentCache_delete(pc, ls, Head(keys))
       IN DeleteEach(d.pc, d.ls, Tail(keys))

\* PersistentCache.cleanup
PersistentCache_cleanup(pc, ls, t) ==
  IF ~pc.storageAvailable \/ ~HasKeys(pc) THEN [pc |-> pc, ls |-> ls]
  ELSE LET keysToDelete == SelectSeq(pc.metadata.keys, LAMBDA k : ToDelete(ls, k, t))
           d == DeleteEach(pc, ls, keysToDelete)
           pc1 == [d.pc EXCEPT !.metadata.lastCleanup = t]
       IN [pc |-> pc1, ls |-> saveMetadata(pc1, d.ls, FALSE)]

----------------------------------------------------------------------------
(* CacheService *)

\* CacheService's constructor: both tiers, then the startup cleanup
NewCacheService(ls, available, t) ==
  LET c == PersistentCache_cleanup(NewPersistentCache(ls, available, t), ls, t)
  IN [mc |-> NewMemoryCache, pc |-> c.pc, ls |-> c.ls]

\* the properties CacheService.set reads from its options argument
OptionNames == {"ttl", "persistent", "memory"}

\* options without the persistent flag write the storage as well
DefaultOptions_Persistent == [ttl |-> WEATHER_DATA, persistent |-> TRUE, memory |-> TRUE]

\* the defaults of the destructuring in CacheService.set
DefaultOptions == [ttl |-> WEATHER_DATA, persistent |-> FALSE, memory |-> TRUE]

\* const { ttl = ..., persistent = ..., memory = ... } = options: a property the
\* options object lacks takes its default
Destructure(options) ==
  [n \in OptionNames |-> IF n \in DOMAIN options THEN options[n]
                         ELSE DefaultOptions[n]]

\* CacheService.set: the state after the call; st is the memory tier's set
\* (its clock, evictions and whether it is endless)
CacheService_set(mc, pc, ls, key, data, options, t, fault) ==
  LET o == Destructure(options)
      m == IF o.memory THEN MemoryCache_set(mc, key, data, o.ttl, t)
           ELSE [mc |-> mc, t |-> t, log |-> <<>>, diverged |-> FALSE]
      p == IF o.persistent /\ ~m.diverged /\ m.t <= MaxTime
           THEN PersistentCache_set(pc, ls, key, data, o.ttl, m.t, fault)
           ELSE [pc |-> pc, ls |-> ls]
  IN [st |-> m, pc |-> p.pc, ls |-> p.ls]

\* CacheService.get: a persistent hit is promoted with the default TTL; reads
\* is the number of localStorage.getItem calls made
CacheService_get(mc, pc, ls, key, t) ==
  LET m == MemoryCache_get(mc, key, t)
      p == PersistentCache_get(pc, ls, key, t)
      idle == [mc |-> m.mc, t |-> t, log |-> <<>>, diverged |-> FALSE]
  IN IF m.val # Null
     THEN [st |-> idle, pc |-> pc, ls |-> ls, val |-> m.val, reads |-> 0]
     ELSE IF p.val # Null
     THEN [st |-> MemoryCache_set(m.mc, key, p.val, WEATHER_DATA, t),
           pc |-> p.pc, ls |-> p.ls, val |-> p.val, reads |-> p.reads]
     ELSE [st |-> idle, pc |-> p.pc, ls |-> p.ls, val |-> Null, reads |-> p.reads]

\* CacheService.getStats: reading .keys of a metadata that was never assigned
\* throws a TypeError, which nothing catches
CacheService_getStats(mc, pc) ==
  IF ~HasKeys(pc)
  THEN [throws |-> "TypeError"]
  ELSE [throws |-> "none",
        memory |-> MemoryCache_getStats(mc),
        persistent |-> [available |-> pc.storageAvailable,
                        entries |-> Len(pc.metadata.keys),
                        totalSize |-> pc.metadata.totalSize,
                        lastCleanup |-> pc.metadata.lastCleanup]]

----------------------------------------------------------------------------
(* CacheService's key generators *)

\* a coordinate is a whole number of 1e-5 degrees: one decimal more than the
\* keys keep
PerDegree == 100000

RECURSIVE Pow10(_)
Pow10(n) == IF n = 0 THEN 1 ELSE 10 * Pow10(n - 1)

Digit == <<"0", "1", "2", "3", "4", "5", "6", "7", "8", "9">>

\* the decimal digits of n >= 0
RECURSIVE ToDecimal(_)
ToDecimal(n) ==
  IF n < 10 THEN Digit[n + 1] ELSE ToDecimal(n \div 10) \o Digit[(n % 10) + 1]

\* digits with zeros added on the left up to length
RECURSIVE PadZeros(_, _)
PadZeros(digits, length) ==
  IF Len(digits) >= length THEN digits ELSE PadZeros("0" \o digits, length)

\* toFixed's "an integer n for which n / 10^f - x is as close to zero as
\* possible; if there are two such n, pick the larger": a is x in 1e-5 degrees,
\* d the number of them in one unit of the last digit kept
Nearest(a, d) == (2 * a + d) \div (2 * d)

\* toFixed's result: the sign, the digits of n before the last fractionDigits
\* ones, and after a "." the last fractionDigits digits
FixedNotation(negative, n, fractionDigits) ==
  (IF negative THEN "-" ELSE "")
    \o ToDecimal(n \div Pow10(fractionDigits))
    \o (IF fractionDigits = 0 THEN ""
        ELSE "." \o PadZeros(ToDecimal(n % Pow10(fractionDigits)), fractionDigits))

\* a toFixed that keeps one digit less than asked
toFixed_Coarser(x, fractionDigits) ==
  FixedNotation(x < 0,
                Nearest(IF x < 0 THEN -x ELSE x,
                        PerDegree \div Pow10(fractionDigits - 1)),
                fractionDigits - 1)

\* Number.prototype.toFixed: x < 0 gives the sign "-" and the magnitude is
\* rounded, so that a negative x that rounds to zero reads "-0.0000"
toFixed(x, fractionDigits) ==
  FixedNotation(x < 0,
                Nearest(IF x < 0 THEN -x ELSE x,
                        PerDegree \div Pow10(fractionDigits)),
                fractionDigits)

\* CacheService.generateWeatherKey(lat, lng, type = 'current'); args has no
\* type when the caller passed two arguments
generateWeatherKey(args) ==
  "weather_" \o (IF "type" \in DOMAIN args THEN args.type ELSE "current")
    \o "_" \o toFixed(args.lat, 4) \o "_" \o toFixed(args.lng, 4)

UpperCase == <<"A", "B", "C", "D", "E", "F", "G", "H", "I", "J", "K", "L", "M",
               "N", "O", "P", "Q", "R", "S", "T", "U", "V", "W", "X", "Y", "Z">>

LowerCase == <<"a", "b", "c", "d", "e", "f", "g", "h", "i", "j", "k", "l", "m",
               "n", "o", "p", "q", "r", "s", "t", "u", "v", "w", "x", "y", "z">>

\* String.prototype.toLowerCase on a string given as its characters
toLowerCase(string) ==
  [i \in DOMAIN string |->
     IF \E n \in DOMAIN UpperCase : UpperCase[n] = string[i]
     THEN LowerCase[CHOOSE n \in DOMAIN UpperCase : UpperCase[n] = string[i]]
     ELSE string[i]]

\* the characters encodeURIComponent leaves as they are
Unreserved ==
  {UpperCase[n] : n \in DOMAIN UpperCase} \cup {LowerCase[n] : n \in DOMAIN LowerCase}
    \cup {Digit[n] : n \in DOMAIN Digit}
    \cup {"-", "_", ".", "!", "~", "*", "'", "(", ")"}

\* the escapes of the other characters of the queries
PercentEncoding ==
  (" " :> "%20") @@ ("%" :> "%25") @@ ("," :> "%2C") @@ ("+" :> "%2B")
    @@ ("/" :> "%2F")

encodeChar(c) == IF c \in Unreserved THEN c ELSE PercentEncoding[c]

\* the strings of a sequence joined
RECURSIVE Concat(_)
Concat(strings) ==
  IF strings = <<>> THEN "" ELSE Head(strings) \o Concat(Tail(strings))

\* an encodeURIComponent that leaves "%" as it is
encodeURIComponent_PercentKept(string) ==
  Concat([i \in DOMAIN string |->
            IF string[i] = "%" THEN "%" ELSE encodeChar(string[i])])

\* encodeURIComponent on a string given as its characters
encodeURIComponent(string) ==
  Concat([i \in DOMAIN string |-> encodeChar(string[i])])

\* CacheService.generateGeocodingKey(query)
generateGeocodingKey(query) ==
  "geocoding_" \o encodeURIComponent(toLowerCase(query))

----------------------------------------------------------------------------
(* The calls *)

\* the record of a call made at clock reading now; src is, for a
\* CacheService.get that returned a value, the set that wrote it
Call(op, key, val) == [op |-> op, key |-> key, val |-> val, at |-> now, src |-> None]

\* the record of a call that may never return
Returned(diverged, call) ==
  IF diverged THEN Call("(never returns)", call.key, Null) ELSE call

EvictedKeys(log) == {log[i].key : i \in DOMAIN log}

\* written after a call of the memory tier: w is the record of a set of key
\* that returned, None otherwise; removed are the keys the call deleted
Written(key, w, removed, log) ==
  [k \in Keys |->
     IF k = key /\ w # None THEN w
     ELSE IF k \in removed \/ k \in EvictedKeys(log) THEN None
     ELSE written[k]]

\* observed after a MemoryCache.get that returned val
Observed(val) ==
  IF val # Null THEN [observed EXCEPT !.hits = @ + 1]
  ELSE [observed EXCEPT !.misses = @ + 1]

\* no second tab is open
NoTab == [storageAvailable |-> FALSE, metadata |-> Undefined]

\* null in a property of the store that otherwise holds an array or a number
NullData == [null |-> TRUE]

\* state() of the weather store; cacheTimeout is the constant CacheTimeout
NewWeatherStore ==
  [weatherData |-> <<>>, geocodingData |-> NullData, loading |-> FALSE,
   error |-> Null, lastFetchTime |-> NullData, currentRegion |-> Null]

\* the localStorage of a fresh origin
EmptyStorage == [k \in StorageKeys |-> NoItem]

\* the localStorage an earlier page load left behind: it constructed the
\* service and, for the one key of keys if there is one, called
\* set(key, "v2", {ttl: WEATHER_DATA, persistent: true}), at clock reading 0
EarlierLoad(keys) ==
  LET s == NewCacheService(EmptyStorage, TRUE, 0) IN
  IF keys = {} THEN EmptyStorage
  ELSE LET key == CHOOSE k \in keys : TRUE
       IN PersistentCache_set(s.pc, s.ls, key, "v2", WEATHER_DATA, 0, "none").ls

\* the keys an earlier page load may have stored: none or one
EarlierKeys == {{}, {"a"}}

\* a page load: the module constructs cacheService over the origin's storage
PageLoad ==
  /\ now = 0
  /\ \E available \in BOOLEAN, earlier \in EarlierKeys :
       \E s \in {NewCacheService(EarlierLoad(earlier), available, 0)} :
         /\ memoryCache = s.mc
         /\ persistentCache = s.pc
         /\ localStorage = s.ls
         /\ everWritten = earlier
  /\ hung = FALSE
  /\ calls = 0
  /\ ret = Call("new", "", Null)
  /\ evicted = <<>>
  /\ written = [k \in Keys |-> None]
  /\ observed = [hits |-> 0, misses |-> 0]
  /\ removedBy = [k \in Keys |-> ""]
  /\ otherTab = NoTab
  /\ weatherStore = NewWeatherStore
  /\ inFlight = <<>>

\* a page load with no key generator call to make
Init ==
  /\ PageLoad
  /\ keygen = [args |-> <<>>, keys |-> <<>>]

\* the first page load of a fresh origin with a working localStorage
InitMemory ==
  /\ Init
  /\ everWritten = {}
  /\ persistentCache.storageAvailable

\* a call starts: the page is responsive and the model's budget allows it
Begin ==
  /\ ~hung
  /\ calls < MaxCalls
  /\ calls' = calls + 1

\* a call of the service, or of its persistent tier, starts
BeginService ==
  /\ Begin
  /\ calls < MaxServiceCalls

Tick ==
  /\ ~hung
  /\ now < MaxTime
  /\ now' = now + 1
  /\ UNCHANGED <<memoryCache, persistentCache, localStorage, hung, calls, ret,
                 evicted, written, everWritten, observed>>
  /\ UNCHANGED <<removedBy, keygen, otherTab, weatherStore, inFlight>>

\* cacheService.memoryCache.set(key, data, ttl)
MemSet(key, data, ttl) ==
  /\ Begin
  /\ \E r \in {MemoryCache_set(memoryCache, key, data, ttl, now)} :
     /\ r.t <= MaxTime
     /\ memoryCache' = r.mc
     /\ now' = r.t
     /\ hung' = r.diverged
     /\ evicted' = r.log
     /\ written' = IF StringifyThrows(data) THEN written
                   ELSE Written(key, IF r.diverged THEN None
                                     ELSE [data |-> data, t0 |-> now, ttl |-> ttl],
                                {}, r.log)
     /\ ret' = Returned(r.diverged, Call("MemoryCache.set", key, data))
  /\ everWritten' = everWritten \cup {key}
  /\ UNCHANGED <<persistentCache, localStorage, observed>>
  /\ removedBy' = [removedBy EXCEPT ![key] = ""]
  /\ UNCHANGED <<keygen, otherTab, weatherStore, inFlight>>

\* cacheService.memoryCache.get(key)
MemGet(key) ==
  /\ Begin
  /\ \E r \in {MemoryCache_get(memoryCache, key, now)} :
     /\ memoryCache' = r.mc
     /\ ret' = Call("MemoryCache.get", key, r.val)
     /\ observed' = Observed(r.val)
  /\ evicted' = <<>>
  /\ UNCHANGED <<now, hung, persistentCache, localStorage, written, everWritten>>
  /\ UNCHANGED <<removedBy, keygen, otherTab, weatherStore, inFlight>>

\* cacheService.memoryCache.has(key)
MemHas(key) ==
  /\ Begin
  /\ \E r \in {MemoryCache_has(memoryCache, key, now)} :
     /\ memoryCache' = r.mc
     /\ ret' = Call("MemoryCache.has", key, IF r.val THEN "true" ELSE "false")
  /\ evicted' = <<>>
  /\ UNCHANGED <<now, hung, persistentCache, localStorage, written, everWritten,
                 observed>>
  /\ UNCHANGED <<removedBy, keygen, otherTab, weatherStore, inFlight>>

\* cacheService.memoryCache.delete(key)
MemDelete(key) ==
  /\ Begin
  /\ memoryCache' = MemoryCache_delete(memoryCache, key)
  /\ ret' = Call("MemoryCache.delete", key, Null)
  /\ evicted' = <<>>
  /\ written' = Written(key, None, {key}, <<>>)
  /\ UNCHANGED <<now, hung, persistentCache, localStorage, everWritten, observed>>
  /\ UNCHANGED <<removedBy, keygen, otherTab, weatherStore, inFlight>>

\* cacheService.memoryCache.clear()
MemClear ==
  /\ Begin
  /\ memoryCache' = MemoryCache_clear(memoryCache)
  /\ ret' = Call("MemoryCache.clear", "", Null)
  /\ evicted' = <<>>
  /\ written' = [k \in Keys |-> None]
  /\ observed' = [hits |-> 0, misses |-> 0]
  /\ UNCHANGED <<now, hung, persistentCache, localStorage, everWritten>>
  /\ UNCHANGED <<removedBy, keygen, otherTab, weatherStore, inFlight>>

\* the options objects the callers pass for a write with the given ttl: none
\* (every property left out), or the ttl with each flag given or left out
OptionSets(ttl) ==
  {[n \in fields |-> full[n]] :
     full \in [ttl : {ttl}, persistent : BOOLEAN, memory : BOOLEAN],
     fields \in {{}} \cup {{"ttl"} \cup flags : flags \in SUBSET {"persistent", "memory"}}}

\* what a CacheService.set is recorded as: the tiers its destructured flags
\* select
SetOp(o) ==
  IF o.memory THEN IF o.persistent THEN "CacheService.set:both"
                   ELSE "CacheService.set:memory"
  ELSE IF o.persistent THEN "CacheService.set:persistent"
       ELSE "CacheService.set:none"

\* cacheService.set(key, data, options)
CSSet(key, data, options, fault) ==
  /\ BeginService
  /\ \E r \in {CacheService_set(memoryCache, persistentCache, localStorage,
                                 key, data, options, now, fault)},
        o \in {Destructure(options)} :
     /\ r.st.t <= MaxTime
     /\ memoryCache' = r.st.mc
     /\ persistentCache' = r.pc
     /\ localStorage' = r.ls
     /\ now' = r.st.t
     /\ hung' = r.st.diverged
     /\ evicted' = r.st.log
     /\ written' = IF o.memory
                   THEN Written(key, IF r.st.diverged THEN None
                                     ELSE [data |-> data, t0 |-> now, ttl |-> o.ttl],
                                {}, r.st.log)
                   ELSE written
     /\ ret' = Returned(r.st.diverged,
                       Call(SetOp(o), key, data))
  /\ everWritten' = everWritten \cup {key}
  /\ UNCHANGED observed
  /\ removedBy' = [removedBy EXCEPT ![key] = ""]
  /\ UNCHANGED <<keygen, otherTab, weatherStore, inFlight>>

\* cacheService.get(key)
CSGet(key) ==
  /\ BeginService
  /\ \E r \in {CacheService_get(memoryCache, persistentCache, localStorage, key, now)},
        m \in {MemoryCache_get(memoryCache, key, now)},
        unit \in {ParseEntry(localStorage[storageKey(key)])} :
     \* src is the set that wrote the value returned: the memory entry's, or the
     \* stored unit's own; None for a value no set wrote
     \E src \in {IF r.val = Null THEN None
                 ELSE IF m.val # Null THEN written[key]
                 ELSE IF unit.nan THEN None
                 ELSE [data |-> unit.data, t0 |-> unit.timestamp, ttl |-> unit.ttl]} :
     /\ r.st.t <= MaxTime
     /\ memoryCache' = r.st.mc
     /\ persistentCache' = r.pc
     /\ localStorage' = r.ls
     /\ now' = r.st.t
     /\ hung' = r.st.diverged
     /\ evicted' = r.st.log
     /\ ret' = Returned(r.st.diverged,
                       [Call("CacheService.get", key, r.val) EXCEPT !.src = src])
     /\ observed' = Observed(m.val)
     /\ written' = IF m.val = Null /\ r.val # Null
                   THEN Written(key, IF r.st.diverged THEN None ELSE src, {key},
                                r.st.log)
                   ELSE written
  /\ UNCHANGED everWritten
  /\ UNCHANGED <<removedBy, keygen, otherTab, weatherStore, inFlight>>

\* cacheService.delete(key)
CSDelete(key) ==
  /\ BeginService
  /\ \E d \in {PersistentCache_delete(persistentCache, localStorage, key)} :
     /\ memoryCache' = MemoryCache_delete(memoryCache, key)
     /\ persistentCache' = d.pc
     /\ localStorage' = d.ls
  /\ ret' = Call("CacheService.delete", key, Null)
  /\ evicted' = <<>>
  /\ written' = Written(key, None, {key}, <<>>)
  /\ UNCHANGED <<now, hung, everWritten, observed>>
  /\ removedBy' = [removedBy EXCEPT ![key] = "delete"]
  /\ UNCHANGED <<keygen, otherTab, weatherStore, inFlight>>

\* cacheService.clear()
CSClear ==
  /\ BeginService
  /\ \E c \in {PersistentCache_clear(persistentCache, localStorage, now)} :
     /\ memoryCache' = MemoryCache_clear(memoryCache)
     /\ persistentCache' = c.pc
     /\ localStorage' = c.ls
  /\ ret' = Call("CacheService.clear", "", Null)
  /\ evicted' = <<>>
  /\ written' = [k \in Keys |-> None]
  /\ observed' = [hits |-> 0, misses |-> 0]
  /\ UNCHANGED <<now, hung, everWritten>>
  /\ removedBy' = [k \in Keys |-> "clear"]
  /\ UNCHANGED <<keygen, otherTab, weatherStore, inFlight>>

\* cacheService.getStats(): ret.val is "stats", or the error thrown to the
\* caller
CSGetStats ==
  /\ BeginService
  /\ \E r \in {CacheService_getStats(memoryCache, persistentCache)} :
       ret' = Call("CacheService.getStats", "",
                   IF r.throws = "none" THEN "stats" ELSE r.throws)
  /\ evicted' = <<>>
  /\ UNCHANGED <<now, hung, memoryCache, persistentCache, localStorage, written,
                 everWritten, observed>>
  /\ UNCHANGED <<removedBy, keygen, otherTab, weatherStore, inFlight>>

\* the callback of setupPeriodicCleanup's setInterval
PeriodicCleanup ==
  /\ BeginService
  /\ \E c \in {PersistentCache_cleanup(persistentCache, localStorage, now)} :
     /\ persistentCache' = c.pc
     /\ localStorage' = c.ls
  /\ ret' = Call("PersistentCache.cleanup", "", Null)
  /\ evicted' = <<>>
  /\ UNCHANGED <<now, hung, memoryCache, written, everWritten, observed>>
  /\ UNCHANGED <<removedBy, keygen, otherTab, weatherStore, inFlight>>

\* the memory tier called on its own
NextMemory ==
  \/ Tick
  \/ \E key \in MemoryKeys, data \in Payloads, ttl \in TTLs : MemSet(key, data, ttl)
  \/ \E key \in MemoryKeys : MemGet(key)
  \/ \E key \in MemoryKeys : MemHas(key)
  \/ \E key \in MemoryKeys : MemDelete(key)
  \/ MemClear

SpecMemory == InitMemory /\ [][NextMemory]_vars

\* the service, its cleanup timer and the memory tier's has
Next ==
  \/ Tick
  \/ \E key \in ServiceKeys, w \in Writes, fault \in Faults :
       \E options \in OptionSets(w[2]) : CSSet(key, w[1], options, fault)
  \/ \E key \in ServiceKeys : CSGet(key)
  \/ \E key \in ServiceKeys : BeginService /\ MemHas(key)
  \/ \E key \in ServiceKeys : CSDelete(key)
  \/ CSClear
  \/ CSGetStats
  \/ PeriodicCleanup

Spec == Init /\ [][Next]_vars

\* the latitudes the callers pass, in 1e-5 degrees: around zero on both sides,
\* on both sides of half a unit of the fourth decimal, and 48.85661, 48.85666
Latitudes == {-6, -5, -1, 0, 1, 4, 5, 14, 4885661, 4885666}

\* the longitudes the callers pass, in 1e-5 degrees: -0.00001, 0 and 2.35222
Longitudes == {-1, 0, 235222}

WeatherTypes == {"current", "forecast"}

\* the argument lists of generateWeatherKey: with the type and without
WeatherArgs ==
  [lat : Latitudes, lng : Longitudes, type : WeatherTypes]
    \cup [lat : Latitudes, lng : Longitudes]

MaxQueryLen == 2

QueryChars == {"a", "A", " ", "%"}

\* the queries the callers pass, as their characters: every string of up to
\* MaxQueryLen of QueryChars, and 'Paris', 'paris', 'New York', 'new%20york'
Queries ==
  UNION {[1..n -> QueryChars] : n \in 0..MaxQueryLen}
    \cup {<<"P", "a", "r", "i", "s">>, <<"p", "a", "r", "i", "s">>,
          <<"N", "e", "w", " ", "Y", "o", "r", "k">>,
          <<"n", "e", "w", "%", "2", "0", "y", "o", "r", "k">>}

\* a page load after which the caller makes two calls of one key generator
InitKeys ==
  /\ PageLoad
  /\ persistentCache.storageAvailable
  /\ everWritten = {}
  /\ \/ \E a1, a2 \in WeatherArgs : keygen = [args |-> <<a1, a2>>, keys |-> <<>>]
     \/ \E q1, q2 \in Queries :
          keygen = [args |-> <<[query |-> q1], [query |-> q2]>>, keys |-> <<>>]

\* the arguments of the next key generator call
NextArgs == keygen.args[Len(keygen.keys) + 1]

\* cacheService.generateWeatherKey(lat, lng, type) or (lat, lng)
GenerateWeatherKey ==
  /\ Len(keygen.keys) < Len(keygen.args)
  /\ "lat" \in DOMAIN NextArgs
  /\ keygen' = [keygen EXCEPT !.keys = Append(@, generateWeatherKey(NextArgs))]
  /\ UNCHANGED <<now, memoryCache, persistentCache, localStorage, hung, calls, ret,
                 evicted, written, everWritten, observed, removedBy>>
  /\ UNCHANGED <<otherTab, weatherStore, inFlight>>

\* cacheService.generateGeocodingKey(query)
GenerateGeocodingKey ==
  /\ Len(keygen.keys) < Len(keygen.args)
  /\ "query" \in DOMAIN NextArgs
  /\ keygen' = [keygen EXCEPT !.keys = Append(@, generateGeocodingKey(NextArgs.query))]
  /\ UNCHANGED <<now, memoryCache, persistentCache, localStorage, hung, calls, ret,
                 evicted, written, everWritten, observed, removedBy>>
  /\ UNCHANGED <<otherTab, weatherStore, inFlight>>

\* the key generators called on their own
NextKeys ==
  \/ GenerateWeatherKey
  \/ GenerateGeocodingKey

SpecKeys == InitKeys /\ [][NextKeys]_vars

\* cacheService.persistentCache.set(key, data, ttl), with the storage throwing
\* as fault says; ret.src keeps the fault
PSet(key, data, ttl, fault) ==
  /\ BeginService
  /\ \E r \in {PersistentCache_set(persistentCache, localStorage, key, data, ttl,
                                    now, fault)} :
     /\ persistentCache' = r.pc
     /\ localStorage' = r.ls
  /\ ret' = [Call("PersistentCache.set", key, data) EXCEPT !.src = [fault |-> fault]]
  /\ everWritten' = everWritten \cup {key}
  /\ UNCHANGED <<now, hung, memoryCache, evicted, written, observed>>
  /\ UNCHANGED <<removedBy, keygen, otherTab, weatherStore, inFlight>>

\* cacheService.persistentCache.get(key)
PGet(key) ==
  /\ BeginService
  /\ \E r \in {PersistentCache_get(persistentCache, localStorage, key, now)} :
     /\ persistentCache' = r.pc
     /\ localStorage' = r.ls
     /\ ret' = Call("PersistentCache.get", key, r.val)
  /\ UNCHANGED <<now, hung, memoryCache, evicted, written, everWritten, observed>>
  /\ UNCHANGED <<removedBy, keygen, otherTab, weatherStore, inFlight>>

\* cacheService.persistentCache.delete(key)
PDelete(key) ==
  /\ BeginService
  /\ \E r \in {PersistentCache_delete(persistentCache, localStorage, key)} :
     /\ persistentCache' = r.pc
     /\ localStorage' = r.ls
  /\ ret' = Call("PersistentCache.delete", key, Null)
  /\ UNCHANGED <<now, hung, memoryCache, evicted, written, everWritten, observed>>
  /\ UNCHANGED <<removedBy, keygen, otherTab, weatherStore, inFlight>>

\* cacheService.persistentCache.clear()
PClear ==
  /\ BeginService
  /\ \E r \in {PersistentCache_clear(persistentCache, localStorage, now)} :
     /\ persistentCache' = r.pc
     /\ localStorage' = r.ls
  /\ ret' = Call("PersistentCache.clear", "", Null)
  /\ UNCHANGED <<now, hung, memoryCache, evicted, written, everWritten, observed>>
  /\ UNCHANGED <<removedBy, keygen, otherTab, weatherStore, inFlight>>

\* the callback of setupPeriodicCleanup's setInterval, which fires for as long
\* as the page lives, whatever the callers do
TimerCleanup ==
  /\ ~hung
  /\ \E r \in {PersistentCache_cleanup(persistentCache, localStorage, now)} :
     /\ persistentCache' = r.pc
     /\ localStorage' = r.ls
  /\ ret' = Call("PersistentCache.cleanup", "", Null)
  /\ UNCHANGED <<now, hung, calls, memoryCache, evicted, written, everWritten,
                 observed>>
  /\ UNCHANGED <<removedBy, keygen, otherTab, weatherStore, inFlight>>

\* the page is loaded again: the module constructs a new cacheService over the
\* storage as the last page left it
Reload ==
  /\ BeginService
  /\ \E available \in BOOLEAN :
       \E s \in {NewCacheService(localStorage, available, now)} :
         /\ memoryCache' = s.mc
         /\ persistentCache' = s.pc
         /\ localStorage' = s.ls
  /\ ret' = Call("new", "", Null)
  /\ written' = [k \in Keys |-> None]
  /\ observed' = [hits |-> 0, misses |-> 0]
  /\ UNCHANGED <<now, hung, evicted, everWritten>>
  /\ UNCHANGED <<removedBy, keygen, otherTab, weatherStore, inFlight>>

\* the persistent tier called on its own, across page loads
NextPersistent ==
  \/ Tick
  \/ \E key \in PersistentKeys, w \in Writes, fault \in StorageFaults :
       PSet(key, w[1], w[2], fault)
  \/ \E key \in PersistentKeys : PGet(key)
  \/ \E key \in PersistentKeys : PDelete(key)
  \/ PClear
  \/ TimerCleanup
  \/ Reload

SpecPersistent == Init /\ [][NextPersistent]_vars

\* the clock advances and the cleanup timer keeps firing
LiveSpecPersistent == SpecPersistent /\ WF_vars(Tick) /\ WF_vars(TimerCleanup)

----------------------------------------------------------------------------
(* Two tabs of one origin *)

\* the keys the tabs use
TabKeys == {"a", "b"}

Tabs == {1, 2}

\* the PersistentCache instance of a tab
TabCache(i) == IF i = 1 THEN persistentCache ELSE otherTab

\* a tab's call ran to completion: JavaScript runs each call without
\* interruption, and r is the tab's instance and the shared storage after it
TabCall(i, r, op, key, val) ==
  /\ BeginService
  /\ TabCache(i) # NoTab
  /\ IF i = 1 THEN persistentCache' = r.pc /\ UNCHANGED otherTab
     ELSE otherTab' = r.pc /\ UNCHANGED persistentCache
  /\ localStorage' = r.ls
  /\ ret' = [Call(op, key, val) EXCEPT !.src = [tab |-> i]]
  /\ UNCHANGED <<now, hung, memoryCache, evicted, written, everWritten, observed,
                 removedBy, keygen, weatherStore, inFlight>>

\* the second tab loads the page: its module constructs a cacheService over
\* the storage as it is
OpenTab ==
  /\ otherTab = NoTab
  /\ \E s \in {NewCacheService(localStorage, TRUE, now)} :
       /\ otherTab' = s.pc
       /\ localStorage' = s.ls
  /\ ret' = [Call("new", "", Null) EXCEPT !.src = [tab |-> 2]]
  /\ UNCHANGED <<now, hung, calls, memoryCache, persistentCache, evicted, written,
                 everWritten, observed, removedBy, keygen, weatherStore, inFlight>>

\* persistentCache.set(key, data, ttl) in tab i
TabSet(i, key, data, ttl) ==
  \E r \in {PersistentCache_set(TabCache(i), localStorage, key, data, ttl, now,
                                "none")} :
    TabCall(i, r, "PersistentCache.set", key, data)

\* persistentCache.get(key) in tab i
TabGet(i, key) ==
  \E r \in {PersistentCache_get(TabCache(i), localStorage, key, now)} :
    TabCall(i, [pc |-> r.pc, ls |-> r.ls], "PersistentCache.get", key, r.val)

\* persistentCache.delete(key) in tab i
TabDelete(i, key) ==
  \E r \in {PersistentCache_delete(TabCache(i), localStorage, key)} :
    TabCall(i, r, "PersistentCache.delete", key, Null)

\* persistentCache.clear() in tab i
TabClear(i) ==
  \E r \in {PersistentCache_clear(TabCache(i), localStorage, now)} :
    TabCall(i, r, "PersistentCache.clear", "", Null)

\* persistentCache.cleanup() in tab i
TabCleanup(i) ==
  \E r \in {PersistentCache_cleanup(TabCache(i), localStorage, now)} :
    TabCall(i, r, "PersistentCache.cleanup", "", Null)

\* the first tab has loaded the page with a working storage
InitTabs == Init /\ persistentCache.storageAvailable

\* the calls of the two tabs interleave, each call atomic
NextTabs ==
  \/ Tick
  \/ OpenTab
  \/ \E i \in Tabs, key \in TabKeys, w \in Writes : TabSet(i, key, w[1], w[2])
  \/ \E i \in Tabs, key \in TabKeys : TabGet(i, key)
  \/ \E i \in Tabs, key \in TabKeys : TabDelete(i, key)
  \/ \E i \in Tabs : TabClear(i)
  \/ \E i \in Tabs : TabCleanup(i)

SpecTabs == InitTabs /\ [][NextTabs]_vars

----------------------------------------------------------------------------
(* The weather store *)

\* state.cacheTimeout, in clock readings
CacheTimeout == 1

\* the regions the callers ask for
Regions == {"London", "Paris"}

\* what the geocoding request of a fetch comes back with: a location, an empty
\* array, or a rejection
GeocodingOutcomes == {"found", "empty", "error"}

\* what the forecast request comes back with: a body with a list, a body
\* without one, or a rejection
WeatherOutcomes == {"list", "nolist", "error"}

\* geocodingResponse.data for a region
GeocodingOf(region) == [locations |-> <<[name |-> region]>>]

\* weatherResponse.data.list for the coordinates of a region
ForecastOf(region) == <<[for |-> region]>>

\* the getter hasWeatherData
hasWeatherData(st) == Len(st.weatherData) > 0

\* the getter isDataStale; a clock reading stands for a positive Date.now()
isDataStale(st, t) ==
  IF st.lastFetchTime = NullData THEN TRUE
  ELSE t - st.lastFetchTime.time > CacheTimeout

\* the test that makes fetchWeatherData return at once
Fresh(st, region, t) ==
  st.currentRegion = region /\ ~isDataStale(st, t) /\ hasWeatherData(st)

\* error.response?.data?.message || error.message || 'Failed to fetch
\* weather data', for the three ways the try block throws
MessageOf(outcome) ==
  CASE outcome = "empty" -> "Location not found"
    [] outcome = "nolist" -> "Weather data not available"
    [] OTHER -> "Network Error"

\* a catch block that leaves the geocoding data of the try block in place
Catch_KeepsGeocoding(st, outcome) ==
  [st EXCEPT !.error = MessageOf(outcome), !.weatherData = <<>>, !.loading = FALSE]

\* the catch block of fetchWeatherData, followed by its finally block
Catch(st, outcome) ==
  [st EXCEPT !.error = MessageOf(outcome), !.weatherData = <<>>,
             !.geocodingData = NullData, !.loading = FALSE]

\* fetchWeatherData up to its first await: the store after it
StartFetch(st, region) ==
  [st EXCEPT !.loading = TRUE, !.error = Null, !.currentRegion = region]

\* the sequence without its i-th element
Without(seq, i) == SubSeq(seq, 1, i - 1) \o SubSeq(seq, i + 1, Len(seq))

\* the parts of the state the store's actions leave alone
CacheUnchanged ==
  UNCHANGED <<now, memoryCache, persistentCache, localStorage, hung, evicted,
              written, everWritten, observed, removedBy, keygen, otherTab>>

\* weatherStore.fetchWeatherData(region), up to its return or its first await
FetchWeatherData(region) ==
  /\ BeginService
  /\ IF Fresh(weatherStore, region, now)
     THEN /\ UNCHANGED <<weatherStore, inFlight>>
          /\ ret' = Call("fetchWeatherData", region, "cached")
     ELSE /\ weatherStore' = StartFetch(weatherStore, region)
          /\ inFlight' = Append(inFlight, [region |-> region, await |-> "geocoding"])
          /\ ret' = Call("fetchWeatherData", region, "pending")
  /\ CacheUnchanged

\* weatherStore.retryFetch(), up to its return or the first await of the fetch
RetryFetch ==
  /\ BeginService
  /\ weatherStore.currentRegion # Null
  /\ weatherStore' = StartFetch([weatherStore EXCEPT !.lastFetchTime = NullData],
                                weatherStore.currentRegion)
  /\ inFlight' = Append(inFlight, [region |-> weatherStore.currentRegion,
                                   await |-> "geocoding"])
  /\ ret' = Call("retryFetch", weatherStore.currentRegion, "pending")
  /\ CacheUnchanged

\* the geocoding request of the i-th fetch in flight settles and the fetch
\* runs to its second await, or through catch and finally to its end
GeocodingSettles(i, outcome) ==
  /\ i \in DOMAIN inFlight
  /\ inFlight[i].await = "geocoding"
  /\ IF outcome = "found"
     THEN /\ weatherStore' =
               [weatherStore EXCEPT !.geocodingData = GeocodingOf(inFlight[i].region)]
          /\ inFlight' = [inFlight EXCEPT ![i].await = "weather"]
          /\ ret' = Call("fetchWeatherData", inFlight[i].region, "pending")
     ELSE /\ weatherStore' = Catch(weatherStore, outcome)
          /\ inFlight' = Without(inFlight, i)
          /\ ret' = Call("fetchWeatherData", inFlight[i].region, "failed")
  /\ UNCHANGED calls
  /\ CacheUnchanged

\* the forecast request of the i-th fetch in flight settles and the fetch runs
\* to its end
WeatherSettles(i, outcome) ==
  /\ i \in DOMAIN inFlight
  /\ inFlight[i].await = "weather"
  /\ IF outcome = "list"
     THEN /\ weatherStore' =
               [weatherStore EXCEPT !.weatherData = ForecastOf(inFlight[i].region),
                                    !.lastFetchTime = [time |-> now],
                                    !.error = Null,
                                    !.loading = FALSE]
          /\ ret' = Call("fetchWeatherData", inFlight[i].region, "fetched")
     ELSE /\ weatherStore' = Catch(weatherStore, outcome)
          /\ ret' = Call("fetchWeatherData", inFlight[i].region, "failed")
  /\ inFlight' = Without(inFlight, i)
  /\ UNCHANGED calls
  /\ CacheUnchanged

\* weatherStore.clearWeatherData()
ClearWeatherData ==
  /\ BeginService
  /\ weatherStore' = [NewWeatherStore EXCEPT !.loading = weatherStore.loading]
  /\ ret' = Call("clearWeatherData", "", Null)
  /\ UNCHANGED inFlight
  /\ CacheUnchanged

\* weatherStore.clearError()
ClearError ==
  /\ BeginService
  /\ weatherStore' = [weatherStore EXCEPT !.error = Null]
  /\ ret' = Call("clearError", "", Null)
  /\ UNCHANGED inFlight
  /\ CacheUnchanged

\* the clock advances while the store's requests are out
StoreTick ==
  /\ now < MaxTime
  /\ now' = now + 1
  /\ UNCHANGED <<memoryCache, persistentCache, localStorage, hung, calls, ret,
                 evicted, written, everWritten, observed, removedBy, keygen,
                 otherTab, weatherStore, inFlight>>

\* the store's actions called by the components, and its requests settling in
\* any order
NextStore ==
  \/ StoreTick
  \/ \E region \in Regions : FetchWeatherData(region)
  \/ RetryFetch
  \/ \E i \in 1..MaxServiceCalls, outcome \in GeocodingOutcomes :
       GeocodingSettles(i, outcome)
  \/ \E i \in 1..MaxServiceCalls, outcome \in WeatherOutcomes :
       WeatherSettles(i, outcome)
  \/ ClearWeatherData
  \/ ClearError

\* the page has loaded and the store is as state() made it
InitStore == InitMemory

SpecStore == InitStore /\ [][NextStore]_vars

----------------------------------------------------------------------------
(* The claims *)

KeysOf(cache) == {cache[i].key : i \in DOMAIN cache}

\* the keys MemoryCache.get would return a value for at clock reading t
Retrievable(mc, t) == {k \in Keys : MemoryCache_get(mc, k, t).val # Null}

\* C1: a MemoryCache.set(key, v, ttl) that returned at t0 is read back by
\* get(key) as v at every clock reading t with t - t0 <= ttl, as long as no
\* set, delete or clear of the key and no eviction of it came between.
C1_MemoryRoundTrip ==
  \A k \in Keys :
    (written[k] # None /\ now - written[k].t0 <= written[k].ttl)
      => MemoryCache_get(memoryCache, k, now).val = written[k].data

\* a get on a later clock reading, on the last one within the ttl, returned
\* the value set
C1_Witness ==
  /\ ret.op = "MemoryCache.get"
  /\ written[ret.key] # None
  /\ ret.val = written[ret.key].data
  /\ now > written[ret.key].t0
  /\ now - written[ret.key].t0 = written[ret.key].ttl

\* C2: a CacheService.set(key, v, flags) that selects at least one tier and
\* returned is read back as v by a get(key) at the same clock reading, whatever
\* the tiers held for key before.  Stated for working storage and for keys
\* whose storage key is not the metadata index's.
C2_ServiceRoundTrip ==
  (/\ ret.op \in {"CacheService.set:memory", "CacheService.set:persistent",
                  "CacheService.set:both"}
   /\ persistentCache.storageAvailable
   /\ storageKey(ret.key) # METADATA_KEY
   /\ now = ret.at)
    => CacheService_get(memoryCache, persistentCache, localStorage,
                        ret.key, now).val = ret.val

\* C3: for a key no set was ever called with (the storage starts empty, so no
\* unit was stored for it either), MemoryCache.get, PersistentCache.get and
\* CacheService.get all return null, whatever was done with other keys.
C3_NeverWrittenIsNull ==
  \A k \in Keys \ everWritten :
    /\ MemoryCache_get(memoryCache, k, now).val = Null
    /\ PersistentCache_get(persistentCache, localStorage, k, now).val = Null
    /\ CacheService_get(memoryCache, persistentCache, localStorage, k, now).val = Null

\* C4: a MemoryCache.get(key) that finds the entry with now - timestamp > ttl
\* returns null, removes the entry and takes it off totalEntries and totalSize;
\* a get of an absent key returns null and leaves it absent; and only a set of
\* the key makes an absent key present again.
C4_LazyExpiry ==
  [][\A k \in Keys :
       LET i == IndexOf(memoryCache.cache, k)
           get == ret'.op = "MemoryCache.get" /\ ret'.key = k /\ calls' = calls + 1
       IN
       /\ (get /\ i # 0 /\ now - memoryCache.cache[i].timestamp > memoryCache.cache[i].ttl)
            => /\ ret'.val = Null
               /\ k \notin KeysOf(memoryCache'.cache)
               /\ memoryCache'.metadata.totalEntries =
                    memoryCache.metadata.totalEntries - 1
               /\ memoryCache'.metadata.totalSize =
                    memoryCache.metadata.totalSize - memoryCache.cache[i].size
       /\ (get /\ i = 0) => (ret'.val = Null /\ k \notin KeysOf(memoryCache'.cache))
       /\ (i = 0 /\ k \in KeysOf(memoryCache'.cache))
            => (ret'.op = "MemoryCache.set" /\ ret'.key = k)
  ]_vars

\* a get found its entry expired: it returned null and the entry is gone
C4_Witness ==
  /\ ret.op = "MemoryCache.get"
  /\ ret.val = Null
  /\ written[ret.key] # None
  /\ now - written[ret.key].t0 > written[ret.key].ttl
  /\ ret.key \notin KeysOf(memoryCache.cache)
  /\ memoryCache.metadata.totalEntries = Len(memoryCache.cache)

\* C5: CacheService.get never returns a value once more than ttl has elapsed
\* since the set that wrote it, also when the value reached the memory tier by
\* promotion.
C5_NeverReturnsExpired ==
  (ret.op = "CacheService.get" /\ ret.val # Null /\ ret.src # None)
    => ret.at - ret.src.t0 <= ret.src.ttl

\* C6: the memory tier never holds more than MAX_ENTRIES entries.
C6_EntryCeiling == Len(memoryCache.cache) <= MAX_ENTRIES

\* a promotion found the tier at the ceiling and evicted for it
C6_Witness ==
  /\ ret.op = "CacheService.get"
  /\ ret.val # Null
  /\ ret.src # None
  /\ evicted # <<>>
  /\ Len(memoryCache.cache) = MAX_ENTRIES

\* C7: totalSize never exceeds MAX_MEMORY_SIZE, whatever the payloads' sizes.
C7_SizeCeiling == memoryCache.metadata.totalSize <= MAX_MEMORY_SIZE

\* the entry the claim names: of the entries with the smallest timestamp, the
\* first in iteration order
OldestFirst(cache) ==
  CHOOSE i \in DOMAIN cache :
    /\ \A j \in DOMAIN cache : cache[i].timestamp <= cache[j].timestamp
    /\ \A j \in 1..(i - 1) : cache[j].timestamp > cache[i].timestamp

C9_EvictsExactlyTheFirst ==
  [][\A k \in MemoryKeys, d \in Payloads, ttl \in TTLs :
       (/\ MemSet(k, d, ttl)
        /\ Len(memoryCache.cache) = MAX_ENTRIES
        /\ k \notin KeysOf(memoryCache.cache)
        /\ \A i \in 1..(Len(memoryCache.cache) - 1) :
             memoryCache.cache[i].timestamp <= memoryCache.cache[i + 1].timestamp
        /\ memoryCache.metadata.totalSize + estimateSize(d) <= MAX_MEMORY_SIZE
        /\ now' - now <= ttl
        /\ \A i \in DOMAIN memoryCache.cache :
             now' - memoryCache.cache[i].timestamp <= memoryCache.cache[i].ttl)
         => /\ Retrievable(memoryCache', now') =
                 (KeysOf(memoryCache.cache) \ {memoryCache.cache[1].key}) \cup {k}
            /\ Len(evicted') = 1
  ]_vars

\* C10: since construction or the last clear, hits counts the gets that
\* returned a value and misses the gets that returned null; no other call
\* changes either.
C10_HitMissAccounting ==
  /\ memoryCache.metadata.hits = observed.hits
  /\ memoryCache.metadata.misses = observed.misses

\* set a, set b, get a, get c: two entries, one hit, one miss
C10_Witness ==
  /\ KeysOf(memoryCache.cache) = {"a", "b"}
  /\ memoryCache.metadata.totalEntries = 2
  /\ memoryCache.metadata.hits = 1
  /\ memoryCache.metadata.misses = 1
  /\ ret.op = "MemoryCache.get"
  /\ ret.key = ""
  /\ ret.val = Null

\* C11: a CacheService.get(key) that misses the memory tier and finds a live
\* unit for key in persistent storage returns the unit's value and leaves it in
\* the memory tier, so that the next get(key) returns it from memory without a
\* localStorage read.
C11_Promotion ==
  [][\A k \in ServiceKeys :
       (/\ CSGet(k)
        /\ MemoryCache_get(memoryCache, k, now).val = Null
        /\ PersistentCache_get(persistentCache, localStorage, k, now).val # Null)
         => /\ ret'.op = "CacheService.get"
            /\ ret'.val = PersistentCache_get(persistentCache, localStorage, k, now).val
            /\ MemoryCache_get(memoryCache', k, now').val = ret'.val
            /\ CacheService_get(memoryCache', persistentCache', localStorage',
                                k, now').val = ret'.val
            /\ CacheService_get(memoryCache', persistentCache', localStorage',
                                k, now').reads = 0
  ]_vars

\* the errors a call can throw to its caller
Errors == {"TypeError"}

\* C12: no call of the cache throws to its caller, whether or not the storage
\* was available at construction.
C12_NeverThrows == ret.val \notin Errors

\* C13: once the probe failed at construction, storageAvailable stays false;
\* PersistentCache's set, delete, clear and cleanup change neither the tier nor
\* the storage, its get returns null without reading the storage, and
\* CacheService.get returns what the memory tier holds.
C13_UnavailableIsInert ==
  [][~persistentCache.storageAvailable =>
       LET pc == persistentCache
           ls == localStorage
           same == [pc |-> pc, ls |-> ls]
       IN
       /\ persistentCache' = persistentCache
       /\ localStorage' = localStorage
       /\ \A k \in Keys :
            /\ PersistentCache_get(pc, ls, k, now) =
                 [pc |-> pc, ls |-> ls, val |-> Null, reads |-> 0]
            /\ PersistentCache_delete(pc, ls, k) = same
            /\ \A w \in Writes :
                 PersistentCache_set(pc, ls, k, w[1], w[2], now, "none") = same
            /\ CacheService_get(memoryCache, pc, ls, k, now).val =
                 MemoryCache_get(memoryCache, k, now).val
       /\ PersistentCache_clear(pc, ls, now) = same
       /\ PersistentCache_cleanup(pc, ls, now) = same
  ]_vars

\* with the storage unavailable and an earlier page load's unit still in it, a
\* get returned a value written with persistent: true, from the memory tier
C13_Witness ==
  /\ ~persistentCache.storageAvailable
  /\ ret.op = "CacheService.get"
  /\ ret.val # Null
  /\ localStorage[storageKey(ret.key)] = NoItem
  /\ localStorage[storageKey("a")] # NoItem
  /\ persistentCache.metadata = Undefined

\* the entry the memory tier holds for key, None when it holds none
EntryOf(mc, key) ==
  IF IndexOf(mc.cache, key) # 0 THEN mc.cache[IndexOf(mc.cache, key)] ELSE None

\* C14: after CacheService.delete(key) every get(key) returns null until the
\* next set(key), whichever tiers held the entry; and the delete leaves what
\* both tiers hold for every other key as it was.
C14_DeleteRemoves ==
  [][/\ \A k \in Keys :
          removedBy'[k] = "delete" =>
            CacheService_get(memoryCache', persistentCache', localStorage',
                             k, now').val = Null
     /\ \A k \in ServiceKeys :
          CSDelete(k) =>
            \A k2 \in Keys \ {k} :
              /\ EntryOf(memoryCache', k2) = EntryOf(memoryCache, k2)
              /\ PersistentCache_get(persistentCache', localStorage', k2, now).val =
                   PersistentCache_get(persistentCache, localStorage, k2, now).val
  ]_vars

\* C15: after CacheService.clear() every get(k) returns null until k is set
\* again; the clear leaves the memory tier empty with all its counters at zero
\* and, the storage being available, leaves no unit and no index in it.
C15_ClearEmpties ==
  [][/\ \A k \in Keys :
          removedBy'[k] = "clear" =>
            CacheService_get(memoryCache', persistentCache', localStorage',
                             k, now').val = Null
     /\ CSClear =>
          /\ memoryCache'.cache = <<>>
          /\ memoryCache'.metadata.hits = 0
          /\ memoryCache'.metadata.misses = 0
          /\ memoryCache'.metadata.totalEntries = 0
          /\ memoryCache'.metadata.totalSize = 0
          /\ persistentCache.storageAvailable =>
               /\ \A sk \in StorageKeys : localStorage'[sk] = NoItem
               /\ persistentCache'.metadata.keys = <<>>
               /\ persistentCache'.metadata.totalSize = 0
  ]_vars

\* the options with each flag the caller left out filled in as the claim
\* states the defaults: memory true, persistent false
WithStatedFlags(options) ==
  [n \in DOMAIN options \cup {"memory", "persistent"} |->
     IF n \in DOMAIN options THEN options[n] ELSE n = "memory"]

\* C16: CacheService.set writes only to the tiers its flags select: with memory
\* false the memory tier's entries and counters are unchanged, with persistent
\* false the storage and the index are unchanged; a flag left out counts as
\* memory true, persistent false.
C16_SetWritesSelectedTiers ==
  [][\A key \in ServiceKeys, w \in Writes :
       (/\ calls' = calls + 1
        /\ ret'.key = key
        /\ ret'.op = "(never returns)" \/ ret'.val = w[1]) =>
         \A options \in OptionSets(w[2]) :
           (/\ ret'.op \in {"(never returns)", SetOp(Destructure(options))}
            /\ CSSet(key, w[1], options, "none")) =>
             \A flags \in {WithStatedFlags(options)} :
               \A stated \in {CacheService_set(memoryCache, persistentCache,
                                               localStorage, key, w[1], flags,
                                               now, "none")} :
                 /\ ~flags.memory => memoryCache' = memoryCache
                 /\ ~flags.persistent =>
                      /\ persistentCache' = persistentCache
                      /\ localStorage' = localStorage
                 /\ memoryCache' = stated.st.mc
                 /\ persistentCache' = stated.pc
                 /\ localStorage' = stated.ls
  ]_vars

\* a set with memory false stored its value and left the memory tier's live
\* entry of the key, holding another value, as it was
C16_Witness ==
  /\ ret.op = "CacheService.set:persistent"
  /\ localStorage[storageKey(ret.key)] = StringifyEntry(ret.val, now, WEATHER_DATA)
  /\ EntryOf(memoryCache, ret.key) # None
  /\ EntryOf(memoryCache, ret.key).data # ret.val
  /\ memoryCache.metadata.totalEntries = 1

\* a coordinate of 1e-5 degrees rounded to the nearest 1e-4 degree, as a number
Rounded(x) == IF x < 0 THEN -((5 - x) \div 10) ELSE (x + 5) \div 10

\* the type of a generateWeatherKey call, 'current' when none was passed
TypeOf(args) == IF "type" \in DOMAIN args THEN args.type ELSE "current"

\* the two generateWeatherKey calls are made
WeatherKeysMade == Len(keygen.keys) = 2 /\ "lat" \in DOMAIN keygen.args[1]

\* C17: generateWeatherKey returns weather_<type>_<lat>_<lng> with the
\* coordinates rounded to 4 decimals and the type 'current' when left out;
\* equal arguments give equal keys, and two calls give the same key exactly
\* when their types are equal and both coordinates round to the same 4-decimal
\* values.
C17_WeatherKey ==
  WeatherKeysMade =>
    LET a1 == keygen.args[1]
        a2 == keygen.args[2]
    IN
    /\ a1 = a2 => keygen.keys[1] = keygen.keys[2]
    /\ (a1 = [lat |-> 4885661, lng |-> 235222, type |-> "forecast"])
         => keygen.keys[1] = "weather_forecast_48.8566_2.3522"
    /\ (a1 = [lat |-> 14, lng |-> 0])
         => keygen.keys[1] = "weather_current_0.0001_0.0000"
    /\ (keygen.keys[1] = keygen.keys[2])
         <=> (/\ TypeOf(a1) = TypeOf(a2)
              /\ Rounded(a1.lat) = Rounded(a2.lat)
              /\ Rounded(a1.lng) = Rounded(a2.lng))

\* how far apart two coordinates are, in 1e-5 degrees
Distance(x, y) == IF x < y THEN y - x ELSE x - y

\* 0.0001 degrees, in 1e-5 degrees
Bucket == PerDegree \div Pow10(4)

\* C18 as stated: two calls of one type whose latitudes and whose longitudes
\* lie within 0.0001 degrees of each other give the same key.
C18_NearIsSameKey ==
  (/\ WeatherKeysMade
   /\ TypeOf(keygen.args[1]) = TypeOf(keygen.args[2])
   /\ Distance(keygen.args[1].lat, keygen.args[2].lat) <= Bucket
   /\ Distance(keygen.args[1].lng, keygen.args[2].lng) <= Bucket)
    => keygen.keys[1] = keygen.keys[2]

\* C18, amended: two calls that give the same key have latitudes, and
\* longitudes, less than 0.0001 degrees apart.
C18_SameKeyIsNear ==
  (WeatherKeysMade /\ keygen.keys[1] = keygen.keys[2])
    => /\ Distance(keygen.args[1].lat, keygen.args[2].lat) < Bucket
       /\ Distance(keygen.args[1].lng, keygen.args[2].lng) < Bucket

\* two calls with latitudes 0.00009 degrees apart gave the same key
C18_Witness ==
  /\ WeatherKeysMade
  /\ keygen.keys[1] = keygen.keys[2]
  /\ Distance(keygen.args[1].lat, keygen.args[2].lat) = Bucket - 1

\* the two generateGeocodingKey calls are made
GeocodingKeysMade == Len(keygen.keys) = 2 /\ "query" \in DOMAIN keygen.args[1]

\* two strings equal but for the case of their letters
EqualIgnoringCase(q1, q2) ==
  /\ Len(q1) = Len(q2)
  /\ \A i \in DOMAIN q1 :
       \/ q1[i] = q2[i]
       \/ \E n \in DOMAIN UpperCase : {q1[i], q2[i]} = {UpperCase[n], LowerCase[n]}

\* C19: generateGeocodingKey returns 'geocoding_' and the percent-encoded
\* lowercased query: 'Paris' gives geocoding_paris, the space of 'New York' is
\* written %20 (each space or percent sign makes the key two characters
\* longer), and two queries get the same key exactly when they are equal
\* ignoring letter case.
C19_GeocodingKey ==
  GeocodingKeysMade =>
    LET q1 == keygen.args[1].query
        q2 == keygen.args[2].query
    IN
    /\ (keygen.keys[1] = keygen.keys[2]) <=> EqualIgnoringCase(q1, q2)
    /\ q1 = <<"P", "a", "r", "i", "s">> => keygen.keys[1] = "geocoding_paris"
    /\ q1 = <<"N", "e", "w", " ", "Y", "o", "r", "k">>
         => keygen.keys[1] = "geocoding_new%20york"
    /\ Len(keygen.keys[1]) =
         Len("geocoding_") + Len(q1)
           + 2 * Cardinality({i \in DOMAIN q1 : q1[i] \in {" ", "%"}})

\* two queries with a space that differ in the case of a letter got one key
C19_Witness ==
  /\ GeocodingKeysMade
  /\ keygen.keys[1] = keygen.keys[2]
  /\ keygen.args[1].query # keygen.args[2].query
  /\ \E i \in DOMAIN keygen.args[1].query : keygen.args[1].query[i] = " "

\* C20: every MemoryCache.set returns: the eviction loops of evictIfNeeded
\* end, whatever the keys and timestamps of the entries.
C20_SetTerminates == ~hung

\* the payloads whose serialization throws
Unserializable == {"circular"}

\* C21: a MemoryCache.set whose payload cannot be serialized returns normally
\* and leaves the memory tier as it was: the same entries, the previous entry
\* of the key among them, the same counters, and nothing evicted.
C21_FailedSetChangesNothing ==
  [][\A k \in MemoryKeys, d \in Payloads, ttl \in TTLs :
       (d \in Unserializable /\ MemSet(k, d, ttl)) =>
         /\ memoryCache' = memoryCache
         /\ evicted' = <<>>
         /\ ret' = Call("MemoryCache.set", k, d)
         /\ ~hung'
  ]_vars

\* a set that failed found the tier at its ceiling of entries, the key's
\* previous entry among them, and left both entries in place
C21_Witness ==
  /\ ret.op = "MemoryCache.set"
  /\ ret.val \in Unserializable
  /\ Len(memoryCache.cache) = MAX_ENTRIES
  /\ EntryOf(memoryCache, ret.key) # None
  /\ memoryCache.metadata.evictions = 0

\* C22: a PersistentCache.set during which a storage write throws, that of the
\* unit or that of the index, returns normally and leaves the persistent state
\* as it was: the unit stored under the key, the index in memory and the index
\* in storage.
C22_FailedWriteChangesNothing ==
  [][\A k \in PersistentKeys, w \in Writes, fault \in StorageFaults \ {"none"} :
       PSet(k, w[1], w[2], fault) =>
         /\ localStorage'[storageKey(k)] = localStorage[storageKey(k)]
         /\ persistentCache' = persistentCache
         /\ localStorage'[METADATA_KEY] = localStorage[METADATA_KEY]
  ]_vars

\* the keys of an index
Indexed(pc) == {pc.metadata.keys[i] : i \in DOMAIN pc.metadata.keys}

\* the item stored under a key's storage key is a unit of the cache that has
\* not expired at clock reading t
LiveUnit(ls, key, t) ==
  /\ ls[storageKey(key)].json = "entry"
  /\ t - ls[storageKey(key)].timestamp <= ls[storageKey(key)].ttl

\* C23: after a cleanup with the storage available, every key left in the
\* index has a stored unit that is unexpired at the cleanup's clock reading,
\* the keys removed are exactly those whose unit was absent or expired, and
\* lastCleanup is that clock reading.
C23_CleanupLeavesLiveKeys ==
  [][(TimerCleanup /\ persistentCache.storageAvailable) =>
       /\ HasKeys(persistentCache')
       /\ \A k \in Indexed(persistentCache') : LiveUnit(localStorage', k, now)
       /\ Indexed(persistentCache) \ Indexed(persistentCache') =
            {k \in Indexed(persistentCache) : ~LiveUnit(localStorage, k, now)}
       /\ persistentCache'.metadata.lastCleanup = now
  ]_vars

\* the units a set can store within the model's clock readings
Units == {StringifyEntry(w[1], t, w[2]) : w \in Writes, t \in 0..MaxTime}

\* C24: every unit stored, whose ttl elapses within the clock readings of the
\* model, is eventually removed from the storage (or the storage has become
\* unavailable), whether or not it is read again: the cleanup timer keeps
\* firing, and a cleanup runs at every page load.
C24_ExpiredEventuallyRemoved ==
  \A k \in PersistentKeys, u \in Units :
    (localStorage[storageKey(k)] = u /\ u.timestamp + u.ttl < MaxTime)
      ~> (localStorage[storageKey(k)] # u \/ ~persistentCache.storageAvailable)

\* the calls a caller may make between a cleanup and a later get
CallsBetween ==
  [op : {"set"}, key : PersistentKeys, w : Writes, fault : StorageFaults]
    \cup [op : {"get", "delete"}, key : PersistentKeys]

\* the tier and the storage after the call o made at t
AfterCall(pc, ls, o, t) ==
  IF o.op = "set"
  THEN PersistentCache_set(pc, ls, o.key, o.w[1], o.w[2], t, o.fault)
  ELSE IF o.op = "get"
  THEN [pc |-> PersistentCache_get(pc, ls, o.key, t).pc,
        ls |-> PersistentCache_get(pc, ls, o.key, t).ls]
  ELSE PersistentCache_delete(pc, ls, o.key)

\* C25: a cleanup run now changes no later get: a get of any key, made at once
\* or after one further set, get or delete, at this or a later clock reading,
\* returns what it returns when the cleanup did not run. (Every state reached
\* by a sequence of calls is covered, so the cleanup may sit at any point of
\* the sequence.)
C25_CleanupUnobservable ==
  \A c \in {PersistentCache_cleanup(persistentCache, localStorage, now)} :
    \A k \in PersistentKeys, t \in now..MaxTime :
      /\ PersistentCache_get(c.pc, c.ls, k, t).val
           = PersistentCache_get(persistentCache, localStorage, k, t).val
      /\ \A o \in CallsBetween :
           \A with \in {AfterCall(c.pc, c.ls, o, now)},
              without \in {AfterCall(persistentCache, localStorage, o, now)} :
             PersistentCache_get(with.pc, with.ls, k, t).val
               = PersistentCache_get(without.pc, without.ls, k, t).val

\* C26: a CacheService.get(key) that misses the memory tier and hits the
\* persistent tier leaves in the memory tier an entry for key with the value
\* returned, the clock reading of the get as its timestamp and WEATHER_DATA as
\* its ttl, whatever the timestamp and ttl of the stored unit; the stored unit
\* is as it was.
C26_PromotedWithDefaultTtl ==
  [][\A k \in ServiceKeys :
       (/\ CSGet(k)
        /\ MemoryCache_get(memoryCache, k, now).val = Null
        /\ PersistentCache_get(persistentCache, localStorage, k, now).val # Null)
         => /\ EntryOf(memoryCache', k) # None
            /\ EntryOf(memoryCache', k).data = ret'.val
            /\ EntryOf(memoryCache', k).timestamp = now
            /\ EntryOf(memoryCache', k).ttl = WEATHER_DATA
            /\ localStorage'[storageKey(k)] = localStorage[storageKey(k)]
  ]_vars

\* C27: MemoryCache.has(key) returns true exactly when the tier holds an entry
\* for key with now - timestamp <= ttl, which is when get(key) would return its
\* value; it leaves hits, misses, evictions and every entry it keeps as they
\* were; and it changes the tier only by removing the entry it found expired,
\* taking its size and its count out of the totals.
C27_HasIsGetWithoutCounting ==
  [][\A k \in MemoryKeys :
       MemHas(k) =>
         LET e == EntryOf(memoryCache, k)
             live == e # None /\ now - e.timestamp <= e.ttl
         IN /\ ret'.val = IF live THEN "true" ELSE "false"
            /\ live <=> MemoryCache_get(memoryCache, k, now).val # Null
            /\ memoryCache'.metadata.hits = memoryCache.metadata.hits
            /\ memoryCache'.metadata.misses = memoryCache.metadata.misses
            /\ memoryCache'.metadata.evictions = memoryCache.metadata.evictions
            /\ IF e # None /\ ~live
               THEN /\ memoryCache'.cache
                         = SelectSeq(memoryCache.cache, LAMBDA x : x.key # k)
                    /\ memoryCache'.metadata.totalSize
                         = memoryCache.metadata.totalSize - e.size
                    /\ memoryCache'.metadata.totalEntries
                         = memoryCache.metadata.totalEntries - 1
               ELSE memoryCache' = memoryCache
  ]_vars

\* a has found the entry of its key expired and removed it, another entry
\* staying, with no get having missed
C27_Witness ==
  /\ ret.op = "MemoryCache.has"
  /\ ret.val = "false"
  /\ written[ret.key] # None
  /\ now - written[ret.key].t0 > written[ret.key].ttl
  /\ EntryOf(memoryCache, ret.key) = None
  /\ memoryCache.metadata.totalEntries = 1
  /\ memoryCache.metadata.misses = 0
  /\ memoryCache.metadata.evictions = 0

\* the sum of the size fields of the entries
RECURSIVE SumOfSizes(_)
SumOfSizes(cache) ==
  IF cache = <<>> THEN 0 ELSE Head(cache).size + SumOfSizes(Tail(cache))

\* C28: in every state of the memory tier totalEntries is the number of
\* entries of the map, totalSize is the sum of their size fields, neither is
\* negative, and no two entries have the same key.
C28_TotalsMatchTheMap ==
  /\ memoryCache.metadata.totalEntries = Len(memoryCache.cache)
  /\ memoryCache.metadata.totalSize = SumOfSizes(memoryCache.cache)
  /\ memoryCache.metadata.totalEntries >= 0
  /\ memoryCache.metadata.totalSize >= 0
  /\ \A i, j \in DOMAIN memoryCache.cache :
       memoryCache.cache[i].key = memoryCache.cache[j].key => i = j

\* a set after the first clock reading has stored the entry of its key, the
\* tier holding two entries after at least one eviction and one missing get
C28_Witness ==
  /\ ret.op = "MemoryCache.set"
  /\ ret.at > 0
  /\ EntryOf(memoryCache, ret.key) # None
  /\ EntryOf(memoryCache, ret.key).timestamp = now
  /\ Len(memoryCache.cache) = 2
  /\ memoryCache.metadata.totalSize = 2
  /\ memoryCache.metadata.evictions >= 1
  /\ memoryCache.metadata.misses >= 1

\* C29: no call of the memory tier other than clear lowers hits, misses or
\* evictions; clear leaves the map empty and totalSize, totalEntries, hits,
\* misses and evictions all zero.
C29_CountersResetOnlyByClear ==
  [][/\ ret'.op # "MemoryCache.clear" =>
          /\ memoryCache'.metadata.hits >= memoryCache.metadata.hits
          /\ memoryCache'.metadata.misses >= memoryCache.metadata.misses
          /\ memoryCache'.metadata.evictions >= memoryCache.metadata.evictions
     /\ MemClear =>
          /\ memoryCache'.cache = <<>>
          /\ \A f \in {"totalSize", "totalEntries", "hits", "misses", "evictions"} :
               memoryCache'.metadata[f] = 0
          /\ DOMAIN memoryCache'.metadata
               = {"totalSize", "totalEntries", "hits", "misses", "evictions"}
  ]_vars

\* a clear was the last of the calls, after sets of two keys, and the tier is
\* empty with every counter at zero
C29_Witness ==
  /\ ret.op = "MemoryCache.clear"
  /\ calls = MaxCalls
  /\ Cardinality(everWritten) >= 2
  /\ memoryCache.cache = <<>>
  /\ memoryCache.metadata.hits = 0
  /\ memoryCache.metadata.evictions = 0

IndexMatchesStorage(pc, ls) ==
  /\ HasKeys(pc)
  /\ \A i, j \in DOMAIN pc.metadata.keys :
       pc.metadata.keys[i] = pc.metadata.keys[j] => i = j
  /\ \A k \in Keys : k \in Indexed(pc) <=> ls[storageKey(k)].json = "entry"

\* the calls of one PersistentCache instance
InstanceCalls ==
  {"PersistentCache.set", "PersistentCache.get", "PersistentCache.delete",
   "PersistentCache.clear", "PersistentCache.cleanup"}

\* C31: with working storage, every set, get, delete, clear and cleanup of an
\* instance whose index lists no key twice and lists exactly the keys that have
\* a unit stored leaves the index so: no key twice, and a key in it exactly
\* when a unit for it is in the storage.
C31_IndexMatchesStorage ==
  [][(/\ persistentCache.storageAvailable
      /\ IndexMatchesStorage(persistentCache, localStorage)
      /\ ret'.op \in InstanceCalls)
       => IndexMatchesStorage(persistentCache', localStorage')
  ]_vars

\* the serialized lengths of the units stored for the keys of the index
RECURSIVE StoredLength(_, _)
StoredLength(keys, ls) ==
  IF keys = <<>> THEN 0
  ELSE (IF ls[storageKey(Head(keys))].json = "entry"
        THEN SerializedLength(ls[storageKey(Head(keys))].data) ELSE 0)
       + StoredLength(Tail(keys), ls)

\* totalSize is at least the serialized length of what the index's keys have
\* stored
CoversStored(pc, ls) ==
  HasKeys(pc) /\ pc.metadata.totalSize >= StoredLength(pc.metadata.keys, ls)

C33_PersistentRoundTrip ==
  [][\A k \in PersistentKeys :
       (/\ persistentCache.storageAvailable
        /\ ret'.key = k
        /\ now' = now) =>
         /\ \A w \in Writes :
              (ret'.op = "PersistentCache.set" /\ PSet(k, w[1], w[2], "none")) =>
                \A t \in now..MaxTime :
                  t - now <= w[2] =>
                    PersistentCache_get(persistentCache', localStorage', k, t).val
                      = w[1]
         /\ (/\ ret'.op = "PersistentCache.get"
             /\ localStorage[storageKey(k)].json = "entry"
             /\ now - localStorage[storageKey(k)].timestamp
                  > localStorage[storageKey(k)].ttl) =>
              /\ ret'.val = Null
              /\ localStorage'[storageKey(k)] = NoItem
              /\ HasKeys(persistentCache') => k \notin Indexed(persistentCache')
              /\ localStorage'[METADATA_KEY].json = "metadata" =>
                   ~Includes(localStorage'[METADATA_KEY].keys, k)
              /\ PersistentCache_get(persistentCache', localStorage', k, now).reads = 1
              /\ PersistentCache_get(persistentCache', localStorage', k, now).val = Null
  ]_vars

\* the CacheService.set calls that select at least one tier
TierSets ==
  {"CacheService.set:memory", "CacheService.set:persistent", "CacheService.set:both"}

\* C35: once a CacheService.set(key, v2, ...) selecting any tier has returned,
\* a get(key), at the clock reading of the set or at a later one, returns v2 or
\* nothing stored (null, or the undefined of a unit without data): never a
\* value an earlier set left under the key.
C35_NoSupersededValue ==
  [][\A k \in ServiceKeys :
       (/\ ret'.op \in TierSets
        /\ ret'.key = k
        /\ calls' = calls + 1) =>
          \A t \in now'..MaxTime :
            CacheService_get(memoryCache', persistentCache', localStorage', k, t).val
              \in {ret'.val, Null, UndefinedValue}
  ]_vars

\* C36: a MemoryCache.set of a key the tier holds, after which the tier is
\* within both ceilings (the entry count does not grow, and totalSize less the
\* old entry's size plus the new one's is within MAX_MEMORY_SIZE), evicts no
\* entry of another key.
C36_RefreshEvictsNothing ==
  [][\A k \in MemoryKeys, d \in Payloads, ttl \in TTLs :
       (/\ ret'.op = "MemoryCache.set"
        /\ ret'.key = k
        /\ ret'.val = d
        /\ MemSet(k, d, ttl)
        /\ EntryOf(memoryCache, k) # None
        /\ Len(memoryCache.cache) <= MAX_ENTRIES
        /\ memoryCache.metadata.totalSize - EntryOf(memoryCache, k).size
             + estimateSize(d) <= MAX_MEMORY_SIZE)
         => \A j \in DOMAIN memoryCache.cache :
              memoryCache.cache[j].key # k
                => EntryOf(memoryCache', memoryCache.cache[j].key)
                     = memoryCache.cache[j]
  ]_vars

\* C37: a CacheService.get(key) that returns leaves every other key as
\* retrievable as it was: a key for which get would return a value at the
\* clock reading the call ends on, judged on the tiers before the call, still
\* returns that value after it.
C37_GetSparesOtherKeys ==
  [][\A k \in ServiceKeys :
       (/\ ret'.op = "CacheService.get"
        /\ ret'.key = k
        /\ calls' = calls + 1) =>
          \A j \in ServiceKeys \ {k} :
            \A before \in {CacheService_get(memoryCache, persistentCache,
                                            localStorage, j, now').val} :
              before # Null =>
                CacheService_get(memoryCache', persistentCache', localStorage',
                                 j, now').val = before
  ]_vars

\* C38: between the calls of two tabs that share the storage, every unit of
\* the cache in the storage has its key in the persisted index.
C38_EveryUnitIndexed ==
  otherTab # NoTab =>
    \A k \in TabKeys :
      localStorage[storageKey(k)].json = "entry" =>
        /\ localStorage[METADATA_KEY].json = "metadata"
        /\ Includes(localStorage[METADATA_KEY].keys, k)

\* C40: no key's storage key is the storage key of the index; so, with working
\* storage, a PersistentCache.set of the key that met no storage error leaves
\* the key's unit stored (saving the index did not overwrite it), a get of the
\* key does not return the index read as a unit, and a delete of the key does
\* not remove the stored index.
C40_IndexSlotIsPrivate ==
  [][\A k \in PersistentKeys :
       (/\ persistentCache.storageAvailable
        /\ ret'.key = k
        /\ calls' = calls + 1) =>
         /\ storageKey(k) # METADATA_KEY
         /\ (ret'.op = "PersistentCache.set" /\ ret'.src.fault = "none") =>
              /\ localStorage'[storageKey(k)].json = "entry"
              /\ localStorage'[storageKey(k)].data = ret'.val
         /\ ret'.op = "PersistentCache.get" => ret'.val # UndefinedValue
         /\ (ret'.op = "PersistentCache.delete"
               /\ localStorage[METADATA_KEY].json = "metadata") =>
              localStorage'[METADATA_KEY].json = "metadata"
  ]_vars

\* C34: when a fetchWeatherData that went past the freshness test finishes,
\* loading is false; if it failed (no location, no forecast list, or a request
\* rejected) error is a non-empty message, weatherData is empty and
\* geocodingData is null; if it succeeded error is null and lastFetchTime is
\* the clock reading of the completion.
C34_FetchOutcome ==
  [][Len(inFlight') < Len(inFlight) =>
       /\ ret'.op = "fetchWeatherData"
       /\ ret'.val \in {"failed", "fetched"}
       /\ weatherStore'.loading = FALSE
       /\ ret'.val = "failed" =>
            /\ weatherStore'.error # Null
            /\ Len(weatherStore'.error) > 0
            /\ weatherStore'.weatherData = <<>>
            /\ weatherStore'.geocodingData = NullData
       /\ ret'.val = "fetched" =>
            /\ weatherStore'.error = Null
            /\ weatherStore'.lastFetchTime = [time |-> now']
  ]_vars

\* a fetch has failed at its forecast request, after its geocoding request had
\* stored a location, while another fetch is still in flight
C34_Witness ==
  /\ ret.op = "fetchWeatherData"
  /\ ret.val = "failed"
  /\ weatherStore.error = "Weather data not available"
  /\ weatherStore.geocodingData = NullData
  /\ ~weatherStore.loading
  /\ Len(inFlight) = 1
  /\ inFlight[1].await = "geocoding"

\* C39: when no fetchWeatherData is in flight and the store has a current
\* region, the forecast and the location the store holds are those fetched for
\* currentRegion, the region of the last fetch started.
C39_DataIsOfCurrentRegion ==
  (inFlight = <<>> /\ weatherStore.currentRegion # Null) =>
    /\ weatherStore.weatherData # <<>> =>
         weatherStore.weatherData = ForecastOf(weatherStore.currentRegion)
    /\ weatherStore.geocodingData # NullData =>
         weatherStore.geocodingData = GeocodingOf(weatherStore.currentRegion)

====
